---- MODULE Spec2Model ----
(***************************************************************************)
(* Model of the texture scan of kt_TextureImporter.py: the compilation of  *)
(* a filename template into a regular expression (getRegexPattern), the    *)
(* match of one filename (re.match on the compiled expression), the alias  *)
(* table (Texture.textureMapping / getTypeFromAttr) and the directory walk *)
(* that aggregates matched files into Texture objects                      *)
(* (readTexturesFromFolder, driven by loadTextures).                       *)
(*                                                                         *)
(* A Python str is a sequence of one-character strings, so that escaping,  *)
(* replacement, lower-casing and matching are computed character by        *)
(* character as the code computes them.                                    *)
(***************************************************************************)
EXTENDS Naturals, Sequences, FiniteSets

(***************************************************************************)
(* Bounds of the model.                                                    *)
(***************************************************************************)
\* The longest directory listing a scan walks.
MaxFiles == 2

(***************************************************************************)
(* Python values.                                                          *)
(***************************************************************************)
\* None where a str is expected: a sequence no str equals (its one element
\* is not a character).
None == <<"None">>

\* None where an attribute name is expected (getTypeFromAttr's result).
NoSlot == "None"

\* Truth value of an optional str: None and "" are false.
Truthy(x) == x # None /\ x # <<>>

Digits == {"0", "1", "2", "3", "4", "5", "6", "7", "8", "9"}

LowerLetters ==
  {"a", "b", "c", "d", "e", "f", "g", "h", "i", "j", "k", "l", "m",
   "n", "o", "p", "q", "r", "s", "t", "u", "v", "w", "x", "y", "z"}

\* str.lower on one character: the upper-case letters and their images.
LowerOf ==
  [A |-> "a", B |-> "b", C |-> "c", D |-> "d", E |-> "e", F |-> "f",
   G |-> "g", H |-> "h", I |-> "i", J |-> "j", K |-> "k", L |-> "l",
   M |-> "m", N |-> "n", O |-> "o", P |-> "p", Q |-> "q", R |-> "r",
   S |-> "s", T |-> "t", U |-> "u", V |-> "v", W |-> "w", X |-> "x",
   Y |-> "y", Z |-> "z"]

UpperLetters == DOMAIN LowerOf

\* str.lower
Lower(s) ==
  [i \in 1..Len(s) |-> IF s[i] \in UpperLetters THEN LowerOf[s[i]] ELSE s[i]]

\* s[i:i+len(p)] == p
StartsWithAt(s, i, p) ==
  /\ i + Len(p) - 1 <= Len(s)
  /\ \A j \in 1..Len(p) : s[i + j - 1] = p[j]

\* str.endswith with one suffix
EndsWith(s, suffix) ==
  /\ Len(suffix) <= Len(s)
  /\ StartsWithAt(s, Len(s) - Len(suffix) + 1, suffix)

\* str.replace(old, new) for a non-empty old: the occurrences are found left
\* to right and do not overlap; i is the position the search resumes at.
RECURSIVE ReplaceFrom(_, _, _, _)
ReplaceFrom(s, i, old, new) ==
  IF i > Len(s) THEN <<>>
  ELSE IF StartsWithAt(s, i, old)
       THEN new \o ReplaceFrom(s, i + Len(old), old, new)
       ELSE <<s[i]>> \o ReplaceFrom(s, i + 1, old, new)

Replace(s, old, new) == ReplaceFrom(s, 1, old, new)

(***************************************************************************)
(* getRegexPattern: the template compiled to the text of a regular         *)
(* expression.                                                             *)
(***************************************************************************)
\* The printable characters re.escape puts a backslash before (Python 3.7
\* and later: "@" and "_" are not among them).
EscapedChars ==
  {"(", ")", "[", "]", "{", "}", "?", "*", "+", "-", "|", "^", "$", "\\",
   ".", "&", "~", "#", " "}

\* re.escape
RECURSIVE EscapeFrom(_, _)
EscapeFrom(s, i) ==
  IF i > Len(s) THEN <<>>
  ELSE (IF s[i] \in EscapedChars THEN <<"\\", s[i]>> ELSE <<s[i]>>)
       \o EscapeFrom(s, i + 1)

Escape(s) == EscapeFrom(s, 1)

\* The texts getRegexPattern looks for and puts in their place.
EscapedAt == <<"\\", "@">>
EscapedStar == <<"\\", "*">>
WildcardRegex == <<"(", "[", "^", "_", "]", "+", ")">>
ObjNameToken == <<"@", "o", "b", "j", "N", "a", "m", "e">>
ObjNameRegex == <<"(", "?", "P", "<", "o", "b", "j", "N", "a", "m", "e", ">", "[", "^", "_", "]", "+", ")", "?">>
TexNameToken == <<"@", "t", "e", "x", "N", "a", "m", "e">>
TexNameRegex == <<"(", "?", "P", "<", "t", "e", "x", "N", "a", "m", "e", ">", "[", "^", "_", "]", "+", ")">>
TexTypeToken == <<"@", "t", "e", "x", "T", "y", "p", "e">>
TexTypeRegex == <<"(", "?", "P", "<", "t", "e", "x", "T", "y", "p", "e", ">", "[", "^", "_", "]", "+", ")">>
IdToken == <<"@", "i", "d">>
IdRegex == <<"(", "?", "P", "<", "i", "d", ">", "\\", "d", "+", ")", "?">>
EscapedExt == <<"\\", ".", "e", "x", "t">>
ExtRegex == <<"\\", ".", "\\", "w", "{", "2", ",", "4", "}">>
ExtClassRegex == <<"\\", "w", "{", "2", ",", "4", "}">>

\* getRegexPattern: the replacements in the order of the code.
getRegexPattern(userPattern) ==
  LET r0 == Escape(userPattern)
      r1 == Replace(r0, EscapedAt, <<>>)
      r2 == Replace(r1, EscapedStar, WildcardRegex)
      r3 == Replace(r2, ObjNameToken, ObjNameRegex)
      r4 == Replace(r3, TexNameToken, TexNameRegex)
      r5 == Replace(r4, TexTypeToken, TexTypeRegex)
      r6 == Replace(r5, IdToken, IdRegex)
  IN  Replace(r6, EscapedExt, ExtRegex)

(***************************************************************************)
(* re.match: the regular expressions getRegexPattern produces are          *)
(* concatenations of literal characters, groups over a character class     *)
(* repeated one or more times (optional or not, named or not) and the      *)
(* class \w repeated 2 to 4 times. ParseRegex reads the text into that     *)
(* list of items; MatchFrom is the backtracking match, which tries the     *)
(* longest repetition first and an optional group before its absence, and  *)
(* stops at the first way that succeeds.                                   *)
(***************************************************************************)
Item(kind, name, cls, min, max, optional, ch) ==
  [kind |-> kind, name |-> name, cls |-> cls, min |-> min, max |-> max,
   optional |-> optional, ch |-> ch]

\* No upper limit of a repetition ("+").
Unbounded == 0

Literal(c) == Item("literal", "", "", 1, 1, FALSE, c)
Group(name, cls, optional) == Item("group", name, cls, 1, Unbounded, optional, "")
ExtClass == Item("repeat", "", "word", 2, 4, FALSE, "")

\* A variant of Wildcard that may match nothing: "([^_]+)?".
Wildcard_Optional == Group("", "notUnderscore", TRUE)

\* What "*" compiles to: the unnamed group "([^_]+)".
Wildcard == Group("", "notUnderscore", FALSE)

RECURSIVE ParseFrom(_, _)
ParseFrom(r, i) ==
  IF i > Len(r) THEN <<>>
  ELSE IF StartsWithAt(r, i, ObjNameRegex)
       THEN <<Group("objName", "notUnderscore", TRUE)>>
            \o ParseFrom(r, i + Len(ObjNameRegex))
  ELSE IF StartsWithAt(r, i, TexNameRegex)
       THEN <<Group("texName", "notUnderscore", FALSE)>>
            \o ParseFrom(r, i + Len(TexNameRegex))
  ELSE IF StartsWithAt(r, i, TexTypeRegex)
       THEN <<Group("texType", "notUnderscore", FALSE)>>
            \o ParseFrom(r, i + Len(TexTypeRegex))
  ELSE IF StartsWithAt(r, i, IdRegex)
       THEN <<Group("id", "digit", TRUE)>> \o ParseFrom(r, i + Len(IdRegex))
  ELSE IF StartsWithAt(r, i, WildcardRegex)
       THEN <<Wildcard>> \o ParseFrom(r, i + Len(WildcardRegex))
  ELSE IF StartsWithAt(r, i, ExtClassRegex)
       THEN <<ExtClass>> \o ParseFrom(r, i + Len(ExtClassRegex))
  ELSE IF r[i] = "\\" /\ i < Len(r)
       THEN <<Literal(r[i + 1])>> \o ParseFrom(r, i + 2)
  ELSE <<Literal(r[i])>> \o ParseFrom(r, i + 1)

ParseRegex(regexPattern) == ParseFrom(regexPattern, 1)

GroupNames == {"objName", "texName", "texType", "id"}

\* The named groups of the expression (the keys of match.groupdict()).
GroupsOf(items) ==
  {items[k].name : k \in {j \in 1..Len(items) : items[j].name # ""}}

\* Two groups of one name: re.compile raises re.error.
DuplicateGroup(items) ==
  \E j, k \in 1..Len(items) :
    j # k /\ items[j].name # "" /\ items[j].name = items[k].name

InClass(c, cls) ==
  CASE cls = "notUnderscore" -> c # "_"
    [] cls = "digit" -> c \in Digits
    [] cls = "word" -> c \in LowerLetters \cup UpperLetters \cup Digits \cup {"_"}
    [] OTHER -> FALSE

\* How many characters of class cls s holds from pos on, at most limit.
RECURSIVE RunLength(_, _, _, _)
RunLength(s, pos, cls, limit) ==
  IF limit = 0 \/ pos > Len(s) \/ ~InClass(s[pos], cls) THEN 0
  ELSE 1 + RunLength(s, pos + 1, cls, limit - 1)

\* The result of a match: the text and the start of each named group (None
\* and 0 for a group that took no part in the match) and, in the order of
\* the expression, the text of each unnamed group (None likewise).
NoMatch == [ok |-> FALSE, end |-> 0,
            text |-> [g \in GroupNames |-> None],
            start |-> [g \in GroupNames |-> 0],
            unnamed |-> <<>>]

\* The result rest of the items after a group, with what the group took.
Captured(item, rest, text, pos) ==
  IF ~rest.ok \/ item.kind # "group" THEN rest
  ELSE IF item.name = "" THEN [rest EXCEPT !.unnamed = <<text>> \o @]
  ELSE IF text = None THEN rest
  ELSE [rest EXCEPT !.text[item.name] = text, !.start[item.name] = pos]

\* MatchFrom(items, k, s, pos, whole): items k.. matched against s from pos.
\* whole asks the match to end at the end of s (re.fullmatch); re.match does
\* not. TryLength goes through the lengths n, n-1, ... of repetition k.
RECURSIVE MatchFrom(_, _, _, _, _), TryLength(_, _, _, _, _, _)
MatchFrom(items, k, s, pos, whole) ==
  IF k > Len(items)
  THEN IF whole /\ pos # Len(s) + 1 THEN NoMatch
       ELSE [NoMatch EXCEPT !.ok = TRUE, !.end = pos - 1]
  ELSE IF items[k].kind = "literal"
       THEN IF pos <= Len(s) /\ s[pos] = items[k].ch
            THEN MatchFrom(items, k + 1, s, pos + 1, whole)
            ELSE NoMatch
       ELSE TryLength(items, k, s, pos, whole,
                      RunLength(s, pos, items[k].cls,
                                IF items[k].max = Unbounded THEN Len(s)
                                ELSE items[k].max))

TryLength(items, k, s, pos, whole, n) ==
  IF n < items[k].min
  THEN IF items[k].optional
       THEN Captured(items[k], MatchFrom(items, k + 1, s, pos, whole), None, pos)
       ELSE NoMatch
  ELSE LET rest == MatchFrom(items, k + 1, s, pos + n, whole)
       IN  IF rest.ok
           THEN Captured(items[k], rest, SubSeq(s, pos, pos + n - 1), pos)
           ELSE TryLength(items, k, s, pos, whole, n - 1)

\* re.match(regexPattern, filename)
ReMatch(regexPattern, filename) ==
  MatchFrom(ParseRegex(regexPattern), 1, filename, 1, FALSE)

(***************************************************************************)
(* Texture: the attributes of one texture object and the alias table.      *)
(***************************************************************************)
\* The keys of textureMapping, in the order the dict is written (and
\* iterated).
SlotOrder ==
  <<"baseColor", "metalness", "specularRough", "normal", "displacement",
    "ambientOcclusion", "transmission", "opacity">>

Slots == {SlotOrder[k] : k \in 1..Len(SlotOrder)}

\* A variant of textureMapping in which "ao" is an alias of two parents.
textureMapping_SharedAlias ==
  [baseColor |-> <<<<"b", "a", "s", "e", "c", "o", "l", "o", "r">>, <<"b", "a", "s", "e">>, <<"a", "l", "b", "e", "d", "o">>>>,
   metalness |-> <<<<"m", "e", "t", "a", "l", "n", "e", "s", "s">>, <<"m", "e", "t", "a", "l", "l", "i", "c">>>>,
   specularRough |-> <<<<"r", "o", "u", "g", "h", "n", "e", "s", "s">>, <<"s", "p", "e", "c", "u", "l", "a", "r">>>>,
   normal |-> <<<<"n", "o", "r", "m", "a", "l">>>>,
   displacement |-> <<<<"h", "e", "i", "g", "h", "t">>, <<"d", "i", "s", "p", "l", "a", "c", "e", "m", "e", "n", "t">>>>,
   ambientOcclusion |-> <<<<"a", "o">>, <<"a", "m", "b", "i", "e", "n", "t", "o", "c", "c", "l", "u", "s", "i", "o", "n">>, <<"a", "m", "b", "i", "e", "n", "t", "o", "c", "l", "u", "s", "s", "i", "o", "n">>>>,
   transmission |-> <<<<"t", "r", "a", "n", "s", "m", "i", "s", "s", "i", "o", "n">>, <<"t", "r", "a", "n", "s", "m", "i", "s", "i", "o", "n">>>>,
   opacity |-> <<<<"o", "p", "a", "c", "i", "t", "y">>, <<"a", "o">>>>]

\* textureMapping[parent]["mapping"]
textureMapping ==
  [baseColor |-> <<<<"b", "a", "s", "e", "c", "o", "l", "o", "r">>, <<"b", "a", "s", "e">>, <<"a", "l", "b", "e", "d", "o">>>>,
   metalness |-> <<<<"m", "e", "t", "a", "l", "n", "e", "s", "s">>, <<"m", "e", "t", "a", "l", "l", "i", "c">>>>,
   specularRough |-> <<<<"r", "o", "u", "g", "h", "n", "e", "s", "s">>, <<"s", "p", "e", "c", "u", "l", "a", "r">>>>,
   normal |-> <<<<"n", "o", "r", "m", "a", "l">>>>,
   displacement |-> <<<<"h", "e", "i", "g", "h", "t">>, <<"d", "i", "s", "p", "l", "a", "c", "e", "m", "e", "n", "t">>>>,
   ambientOcclusion |-> <<<<"a", "o">>, <<"a", "m", "b", "i", "e", "n", "t", "o", "c", "c", "l", "u", "s", "i", "o", "n">>, <<"a", "m", "b", "i", "e", "n", "t", "o", "c", "l", "u", "s", "s", "i", "o", "n">>>>,
   transmission |-> <<<<"t", "r", "a", "n", "s", "m", "i", "s", "s", "i", "o", "n">>, <<"t", "r", "a", "n", "s", "m", "i", "s", "i", "o", "n">>>>,
   opacity |-> <<<<"o", "p", "a", "c", "i", "t", "y">>>>]

\* text in children["mapping"]
InList(list, text) == \E k \in 1..Len(list) : list[k] = text

\* Texture.getTypeFromAttr("mapping", text): the first parent, in the order
\* of the dict, whose list holds text; None when no list does.
RECURSIVE getTypeFrom(_, _)
getTypeFrom(k, text) ==
  IF k > Len(SlotOrder) THEN NoSlot
  ELSE IF InList(textureMapping[SlotOrder[k]], text) THEN SlotOrder[k]
       ELSE getTypeFrom(k + 1, text)

\* A variant of getTypeFromAttr that falls back on the first parent instead
\* of None.
getTypeFromAttr_Default(text) ==
  IF getTypeFrom(1, text) = NoSlot THEN SlotOrder[1] ELSE getTypeFrom(1, text)

\* A variant of getTypeFromAttr that takes a parent when text is a part of
\* one of its aliases.
getTypeFromAttr_Substring(text) ==
  LET partOf(alias) == \E j \in 1..Len(alias) : StartsWithAt(alias, j, text)
      parents == {k \in 1..Len(SlotOrder) :
                    \E a \in 1..Len(textureMapping[SlotOrder[k]]) :
                      partOf(textureMapping[SlotOrder[k]][a])}
  IN  IF parents = {} THEN NoSlot
      ELSE SlotOrder[CHOOSE k \in parents : \A j \in parents : k <= j]

getTypeFromAttr(text) == getTypeFrom(1, text)

\* Texture.__init__(name): every map attribute defaults to None.
NewTexture(name) ==
  [name |-> name, baseColor |-> None, metalness |-> None,
   specularRough |-> None, normal |-> None, displacement |-> None,
   ambientOcclusion |-> None, transmission |-> None, opacity |-> None]

\* textures = {}
EmptyTextures == [n \in {} |-> NewTexture(n)]

(***************************************************************************)
(* One file of the walk: readTexturesFromFolder's loop body as functions   *)
(* of the file, the regular expression and the dict built so far.          *)
(***************************************************************************)
UdimMarker == <<"<", "U", "D", "I", "M", ">">>

AllowedExtensions == {<<".", "e", "x", "r">>, <<".", "p", "n", "g">>, <<".", "j", "p", "g">>}

\* A variant of the filter that compares the lower-cased name.
PassesExtensionFilter_IgnoreCase(filename) ==
  \E ext \in AllowedExtensions : EndsWith(Lower(filename), ext)

\* filename.endswith((".exr", ".png", ".jpg"))
PassesExtensionFilter(filename) ==
  \E ext \in AllowedExtensions : EndsWith(filename, ext)

\* What the loop body reads from the match of one filename: the outcome of
\* lines 932-937. "error" names the exception the lines raise: re.error when
\* the expression does not compile, IndexError when match.group names a group
\* the expression does not have.
ReadMatch(regexPattern, filename) ==
  LET items == ParseRegex(regexPattern)
      m == ReMatch(regexPattern, filename)
      names == GroupsOf(items)
      base == [matched |-> FALSE, error |-> "none", objName |-> None,
               texName |-> None, textureType |-> None, textureId |-> None,
               idStart |-> 0, end |-> 0]
  IN  IF DuplicateGroup(items) THEN [base EXCEPT !.error = "re.error"]
      ELSE IF ~m.ok THEN base
      ELSE IF "texName" \notin names \/ "texType" \notin names
           THEN [base EXCEPT !.error = "IndexError"]
      ELSE [matched |-> TRUE, error |-> "none",
            objName |-> IF "objName" \in names THEN m.text["objName"] ELSE None,
            texName |-> m.text["texName"],
            textureType |-> m.text["texType"],
            textureId |-> IF "id" \in names THEN m.text["id"] ELSE None,
            idStart |-> m.start["id"],
            end |-> m.end]

\* A variant of FinalName that leaves the object name out.
FinalName_TexNameOnly(rm) == rm.texName

\* A variant of FinalName that formats the object name whether or not one
\* was captured: f"{objName}_{texName}".
FinalName_Unconditional(rm) ==
  (IF rm.objName = None THEN <<"N", "o", "n", "e">> ELSE rm.objName)
    \o <<"_">> \o rm.texName

\* finalName = f"{objName}_{texName}" if objName else texName
FinalName(rm) ==
  IF Truthy(rm.objName) THEN rm.objName \o <<"_">> \o rm.texName
  ELSE rm.texName

\* The filename as it is stored: filename.replace(textureId, "<UDIM>") when
\* an id was captured.
StoredFilename(rm, filename) ==
  IF Truthy(rm.textureId) THEN Replace(filename, rm.textureId, UdimMarker)
  ELSE filename

\* The attribute the type token names:
\* getTypeFromAttr("mapping", textureType.lower())
TextureParent(rm) == getTypeFromAttr(Lower(rm.textureType))

\* A variant of FinalPath that keeps the separators of the platform.
FinalPath_KeepBackslashes(relDir, storedName) ==
  IF relDir # <<".">> THEN relDir \o <<"/">> \o storedName ELSE storedName

\* finalPath: relDir is os.path.relpath(root, folderPath).
FinalPath(relDir, storedName) ==
  LET relativePath == Replace(relDir, <<"\\">>, <<"/">>)
  IN  IF relativePath # <<".">> THEN relativePath \o <<"/">> \o storedName
      ELSE storedName

\* An entry of the walk: a file name and the directory os.walk found it in,
\* relative to the folder walked.
Entry(relDir, filename) == [dir |-> relDir, name |-> filename]

\* A variant of Aggregate that keeps the first path of an attribute.
Aggregate_FirstWins(texs, entry, rm) ==
  LET finalName == FinalName(rm)
      created == IF finalName \in DOMAIN texs THEN texs
                 ELSE [n \in DOMAIN texs \cup {finalName} |->
                         IF n = finalName THEN NewTexture(finalName)
                         ELSE texs[n]]
      textureParent == TextureParent(rm)
  IN  IF textureParent # NoSlot /\ created[finalName][textureParent] = None
      THEN [created EXCEPT
              ![finalName][textureParent] =
                 FinalPath(entry.dir, StoredFilename(rm, entry.name))]
      ELSE created

\* A variant of Aggregate that makes a new texture object for every matched
\* file, whether or not its name is in the dict.
Aggregate_AlwaysCreate(texs, entry, rm) ==
  LET finalName == FinalName(rm)
      created == [n \in DOMAIN texs \cup {finalName} |->
                    IF n = finalName THEN NewTexture(finalName) ELSE texs[n]]
      textureParent == TextureParent(rm)
  IN  IF textureParent # NoSlot
      THEN [created EXCEPT
              ![finalName][textureParent] =
                 FinalPath(entry.dir, StoredFilename(rm, entry.name))]
      ELSE created

\* A variant of Aggregate that starts a new dict for each matched file: only
\* the texture object of that file is left.
Aggregate_DropOthers(texs, entry, rm) ==
  LET finalName == FinalName(rm)
      created == [n \in {finalName} |->
                    IF n \in DOMAIN texs THEN texs[n] ELSE NewTexture(n)]
      textureParent == TextureParent(rm)
  IN  IF textureParent # NoSlot
      THEN [created EXCEPT
              ![finalName][textureParent] =
                 FinalPath(entry.dir, StoredFilename(rm, entry.name))]
      ELSE created

\* The dict after the loop body ran on a matched file.
Aggregate(texs, entry, rm) ==
  LET finalName == FinalName(rm)
      created == IF finalName \in DOMAIN texs THEN texs
                 ELSE [n \in DOMAIN texs \cup {finalName} |->
                         IF n = finalName THEN NewTexture(finalName)
                         ELSE texs[n]]
      textureParent == TextureParent(rm)
  IN  IF textureParent # NoSlot
      THEN [created EXCEPT
              ![finalName][textureParent] =
                 FinalPath(entry.dir, StoredFilename(rm, entry.name))]
      ELSE created

\* The loop body on one entry: the exception it raises ("none" when it
\* raises none) and the dict it leaves.
ProcessEntry(regexPattern, texs, entry) ==
  IF ~PassesExtensionFilter(entry.name)
  THEN [error |-> "none", textures |-> texs]
  ELSE LET rm == ReadMatch(regexPattern, entry.name)
       IN  IF rm.error # "none" THEN [error |-> rm.error, textures |-> texs]
           ELSE IF ~rm.matched THEN [error |-> "none", textures |-> texs]
           ELSE [error |-> "none", textures |-> Aggregate(texs, entry, rm)]

\* The loop over the files from entry k on, as a function: how the scan ends
\* ("done": the dict is returned, "raised": an exception left it) and the
\* dict at that point.
RECURSIVE ScanFrom(_, _, _, _)
ScanFrom(regex, entries, k, texs) ==
  IF k > Len(entries)
  THEN [pc |-> "done", exception |-> "none", textures |-> texs]
  ELSE LET r == ProcessEntry(regex, texs, entries[k])
       IN  IF r.error # "none"
           THEN [pc |-> "raised", exception |-> r.error, textures |-> r.textures]
           ELSE ScanFrom(regex, entries, k + 1, r.textures)

\* readTexturesFromFolder on the files the walk yields.
readTexturesFromFolder(regex, entries) == ScanFrom(regex, entries, 1, EmptyTextures)

\* os.walk(folderPath): the files it yields. A folder that is missing or
\* cannot be read yields nothing and raises nothing (os.walk is called
\* without onerror and drops the OSError of the listing).
Walk(readable, listing) == IF readable THEN listing ELSE <<>>

\* Whether the walk raises the OSError that the except clause reports.
WalkRaisesOSError(readable) == FALSE

(***************************************************************************)
(* The inputs of the model: the patterns typed in the dialog and the files *)
(* of the folder.                                                          *)
(***************************************************************************)
Patterns ==
  {<<"@", "t", "e", "x", "N", "a", "m", "e", "_", "@", "t", "e", "x", "T", "y", "p", "e", ".", "e", "x", "t">>,
   <<"@", "o", "b", "j", "N", "a", "m", "e", "_", "@", "t", "e", "x", "N", "a", "m", "e", "_", "@", "t", "e", "x", "T", "y", "p", "e", ".", "e", "x", "t">>,
   <<"@", "t", "e", "x", "N", "a", "m", "e", "_", "@", "t", "e", "x", "T", "y", "p", "e", ".", "@", "i", "d", ".", "e", "x", "t">>,
   <<"@", "t", "e", "x", "N", "a", "m", "e", ".", "e", "x", "t">>,
   <<"@", "t", "e", "x", "T", "y", "p", "e", ".", "e", "x", "t">>,
   <<"*", "_", "@", "t", "e", "x", "N", "a", "m", "e", "_", "@", "t", "e", "x", "T", "y", "p", "e", ".", "e", "x", "t">>,
   <<"a", "\\", "@", "_", "@", "t", "e", "x", "N", "a", "m", "e", "_", "@", "t", "e", "x", "T", "y", "p", "e", ".", "e", "x", "t">>}

\* getRegexPattern on each pattern of the model.
Compiled == [p \in Patterns |-> getRegexPattern(p)]

RootDir == <<".">>

Files ==
  {Entry(RootDir, <<"w", "_", "a", "o", ".", "p", "n", "g">>),
   Entry(RootDir, <<"w", "_", "A", "O", ".", "j", "p", "g">>),
   Entry(RootDir, <<"w", "_", "b", "a", "s", "e", ".", "e", "x", "r">>),
   Entry(RootDir, <<"w", "_", "x", "x", ".", "p", "n", "g">>),
   Entry(RootDir, <<"w", "_", "a", "o", ".", "P", "N", "G">>),
   Entry(RootDir, <<"w", "_", "a", "o", ".", "a", "b", "_", ".", "p", "n", "g">>),
   Entry(RootDir, <<"w", "1", "_", "a", "o", ".", "1", ".", "p", "n", "g">>),
   Entry(RootDir, <<"w", "1", "_", "a", "o", ".", "2", ".", "p", "n", "g">>),
   Entry(RootDir, <<"a", "_", "w", "_", "a", "o", ".", "p", "n", "g">>),
   Entry(RootDir, <<"b", "_", "w", "_", "b", "a", "s", "e", "c", ".", "p", "n", "g">>),
   Entry(<<"s", "\\", "1">>, <<"w", "1", "_", "a", "o", ".", "1", ".", "p", "n", "g">>),
   Entry(RootDir, <<"a", "o", ".", "p", "n", "g">>),
   Entry(RootDir, <<"_", "w", "_", "a", "o", ".", "p", "n", "g">>),
   Entry(RootDir, <<"v", "_", "a", "o", ".", "j", "p", "g">>)}

\* The listings of a folder: at most MaxFiles distinct files, in the order
\* os.walk yields them. os.walk goes top-down: the files of the folder itself come
\* before those of its subfolders.
WalkOrder(l) ==
  \A i, j \in 1..Len(l) :
    /\ i # j => l[i] # l[j]
    /\ i < j /\ l[j].dir = RootDir => l[i].dir = RootDir

ListingsOf(files) ==
  UNION {{l \in [1..n -> files] : WalkOrder(l)} : n \in 0..MaxFiles}

Listings == ListingsOf(Files)

\* The files of the folders that are scanned again.
ReloadFiles ==
  {Entry(RootDir, <<"w", "_", "a", "o", ".", "p", "n", "g">>),
   Entry(RootDir, <<"w", "_", "b", "a", "s", "e", ".", "e", "x", "r">>),
   Entry(RootDir, <<"a", "_", "w", "_", "a", "o", ".", "p", "n", "g">>),
   Entry(RootDir, <<"v", "_", "a", "o", ".", "j", "p", "g">>),
   Entry(RootDir, <<"w", "_", "A", "O", ".", "j", "p", "g">>),
   Entry(RootDir, <<"a", "o", ".", "p", "n", "g">>)}

ReloadListings == ListingsOf(ReloadFiles)

(***************************************************************************)
(* The scan as a state machine.                                            *)
(***************************************************************************)
VARIABLES
  filePattern,    \* patternCMB.currentText()
  listing,        \* the files under the folder, in walk order (none are
                  \* known of a folder that cannot be listed)
  readable,       \* whether the folder exists and can be listed
  pc,             \* "idle", "walk", "done" (returned), "raised" or
                  \* "cleared" (after Clear)
  regexPattern,   \* the compiled expression
  walk,           \* the files os.walk yields
  idx,            \* the next entry of the walk
  textures,       \* the dict readTexturesFromFolder builds
  exception,      \* the exception that left the scan, "none" when none did
  errorShown,     \* whether showMessageError was called
  matches,        \* what the loop read of each entry it went through
  previous,       \* how the scan before this one ended: whether it returned
                  \* and the dict it left
  repeat,         \* whether this scan has the pattern and the files of the
                  \* scan before it
  reordered,      \* whether this scan has the pattern of the scan before it
                  \* and its files in another order
  createEnabled,  \* createBTN.isEnabled()
  texList         \* self.texList: the entities that have a widget in it
                  \* (the attribute is first set by loadTextures; it is
                  \* read only after that)

vars == <<filePattern, listing, readable, pc, regexPattern, walk, idx,
          textures, exception, errorShown, matches, previous, repeat,
          reordered, createEnabled, texList>>

Init ==
  /\ filePattern \in Patterns
  /\ readable \in BOOLEAN
  /\ listing \in (IF readable THEN Listings ELSE {<<>>})
  /\ pc = "idle"
  /\ regexPattern = None
  /\ walk = <<>>
  /\ idx = 1
  /\ textures = EmptyTextures
  /\ exception = "none"
  /\ errorShown = FALSE
  /\ matches = <<>>
  /\ previous = [returned |-> FALSE, textures |-> EmptyTextures]
  /\ repeat = FALSE
  /\ reordered = FALSE
  /\ createEnabled = FALSE
  /\ texList = {}

\* loadTextures up to the first entry of the walk: texList = [], the pattern
\* is compiled (getRegexPattern raises nothing), textures = {} and os.walk
\* starts.
StartScan ==
  /\ pc = "idle"
  /\ regexPattern' = Compiled[filePattern]
  /\ textures' = EmptyTextures
  /\ walk' = Walk(readable, listing)
  /\ idx' = 1
  /\ pc' = "walk"
  /\ matches' = <<>>
  /\ texList' = {}
  /\ UNCHANGED <<filePattern, listing, readable, exception, errorShown,
                 previous, repeat, reordered, createEnabled>>

\* One turn of the loop over the files. An exception other than OSError is
\* not caught: it leaves readTexturesFromFolder and loadTextures.
ProcessFile ==
  /\ pc = "walk"
  /\ idx <= Len(walk)
  /\ LET r == ProcessEntry(regexPattern, textures, walk[idx])
     IN  /\ textures' = r.textures
         /\ exception' = r.error
         /\ IF r.error = "none"
            THEN /\ idx' = idx + 1
                 /\ pc' = "walk"
                 /\ matches' = Append(matches, ReadMatch(regexPattern, walk[idx].name))
            ELSE /\ idx' = idx
                 /\ pc' = "raised"
                 /\ matches' = matches
  /\ UNCHANGED <<filePattern, listing, readable, regexPattern, walk,
                 errorShown, previous, repeat, reordered, createEnabled,
                 texList>>

\* The walk is over: the except clause reports an OSError of the walk, the
\* dict is returned, and loadTextures sets the Create button by it and adds
\* one widget for each of its values.
FinishScan ==
  /\ pc = "walk"
  /\ idx > Len(walk)
  /\ errorShown' = WalkRaisesOSError(readable)
  /\ pc' = "done"
  /\ createEnabled' = (DOMAIN textures # {})
  /\ texList' = DOMAIN textures
  /\ UNCHANGED <<filePattern, listing, readable, regexPattern, walk, idx,
                 textures, exception, matches, previous, repeat, reordered>>

Next == StartScan \/ ProcessFile \/ FinishScan

Spec == Init /\ [][Next]_vars

(***************************************************************************)
(* The dialog scanning again: loadTextures is called each time the pattern *)
(* is edited or a folder is chosen, whether the call before returned or    *)
(* raised.                                                                 *)
(***************************************************************************)
\* The listing l holds the files of the listing k in another order (os.walk
\* yields the files of a directory in the order the system lists them).
Reordered(k, l) ==
  /\ Len(k) = Len(l)
  /\ {k[i] : i \in 1..Len(k)} = {l[i] : i \in 1..Len(l)}
  /\ k # l

\* A variant of loadTextures that goes on with the walk of the scan before,
\* which is at its end.
loadTextures_WalkExhausted(p, l) ==
  /\ filePattern' = p
  /\ listing' = l
  /\ repeat' = (p = filePattern /\ l = listing)
  /\ reordered' = (p = filePattern /\ Reordered(listing, l))
  /\ previous' = [returned |-> pc = "done", textures |-> textures]
  /\ regexPattern' = Compiled[p]
  /\ walk' = Walk(readable, l)
  /\ textures' = EmptyTextures
  /\ idx' = Len(walk') + 1
  /\ pc' = "walk"
  /\ matches' = <<>>
  /\ exception' = "none"
  /\ errorShown' = FALSE
  /\ texList' = {}
  /\ UNCHANGED <<readable, createEnabled>>

\* A variant of loadTextures that keeps the dict of the scan before.
loadTextures_KeepTextures(p, l) ==
  /\ filePattern' = p
  /\ listing' = l
  /\ repeat' = (p = filePattern /\ l = listing)
  /\ reordered' = (p = filePattern /\ Reordered(listing, l))
  /\ previous' = [returned |-> pc = "done", textures |-> textures]
  /\ regexPattern' = Compiled[p]
  /\ walk' = Walk(readable, l)
  /\ textures' = textures
  /\ idx' = 1
  /\ pc' = "walk"
  /\ matches' = <<>>
  /\ exception' = "none"
  /\ errorShown' = FALSE
  /\ texList' = {}
  /\ UNCHANGED <<readable, createEnabled>>

\* loadTextures called again, with p in the combo box and the files l under
\* the folder, up to the first entry of the walk: texList = [], the pattern
\* is compiled, textures = {} and os.walk starts.
loadTextures(p, l) ==
  /\ filePattern' = p
  /\ listing' = l
  /\ repeat' = (p = filePattern /\ l = listing)
  /\ reordered' = (p = filePattern /\ Reordered(listing, l))
  /\ previous' = [returned |-> pc = "done", textures |-> textures]
  /\ regexPattern' = Compiled[p]
  /\ walk' = Walk(readable, l)
  /\ textures' = EmptyTextures
  /\ idx' = 1
  /\ pc' = "walk"
  /\ matches' = <<>>
  /\ exception' = "none"
  /\ errorShown' = FALSE
  /\ texList' = {}
  /\ UNCHANGED <<readable, createEnabled>>

\* The pattern was edited (or left as it was) and the edit is finished:
\* the textures are loaded again when a folder is set.
onChange_Finished_patternCMB ==
  /\ pc \in {"done", "raised", "cleared"}
  /\ \E p \in Patterns :
       IF pc = "cleared"
       THEN /\ filePattern' = p
            /\ UNCHANGED <<listing, readable, pc, regexPattern, walk, idx,
                           textures, exception, errorShown, matches,
                           previous, repeat, reordered, createEnabled,
                           texList>>
       ELSE loadTextures(p, listing)

\* Another renderer was chosen: the textures are loaded again when a folder
\* is set (nothing changes when none is).
onChange_textureTypeCMB ==
  /\ pc \in {"done", "raised"}
  /\ loadTextures(filePattern, listing)

\* A folder was chosen: the same one, whose files may have changed, or
\* another one.
onClick_folderPathBTN ==
  /\ pc \in {"done", "raised", "cleared"}
  /\ \E l \in (IF readable THEN ReloadListings ELSE {<<>>}) :
       loadTextures(filePattern, l)

\* Clear: the layout is emptied, the folder path is set to "" and the Create
\* button is disabled; self.texList is left as it is. Nothing is left of the
\* scan before (its dict was local to loadTextures). Clear changes nothing
\* when no folder is set.
onClick_clearBTN ==
  /\ pc \in {"done", "raised"}
  /\ pc' = "cleared"
  /\ createEnabled' = FALSE
  /\ listing' = <<>>
  /\ regexPattern' = None
  /\ walk' = <<>>
  /\ idx' = 1
  /\ textures' = EmptyTextures
  /\ exception' = "none"
  /\ errorShown' = FALSE
  /\ matches' = <<>>
  /\ previous' = [returned |-> FALSE, textures |-> EmptyTextures]
  /\ repeat' = FALSE
  /\ reordered' = FALSE
  /\ UNCHANGED <<filePattern, readable, texList>>

InitReload == Init /\ listing \in ReloadListings

NextReload ==
  \/ StartScan
  \/ ProcessFile
  \/ FinishScan
  \/ onChange_Finished_patternCMB
  \/ onChange_textureTypeCMB
  \/ onClick_folderPathBTN
  \/ onClick_clearBTN

SpecReload == InitReload /\ [][NextReload]_vars

(***************************************************************************)
(* What the claims speak of, read off the state.                           *)
(***************************************************************************)
\* The entries the loop has gone through.
Processed == 1..(idx - 1)

\* The entry the loop went through last.
LastProcessed == idx - 1

\* What the loop reads of each file of the model under each pattern.
Reads ==
  [p \in Patterns |->
     [f \in {e.name : e \in Files} |-> ReadMatch(Compiled[p], f)]]

\* The match of entry i of the walk: as the loop read it when it has gone
\* through the entry, as it will read it otherwise.
MatchOf(i) ==
  IF i <= Len(matches) THEN matches[i]
  ELSE Reads[filePattern][walk[i].name]

\* The name ends in exactly .exr, .png or .jpg.
AllowedName(filename) ==
  /\ Len(filename) >= 4
  /\ SubSeq(filename, Len(filename) - 3, Len(filename))
       \in {<<".", "e", "x", "r">>, <<".", "p", "n", "g">>, <<".", "j", "p", "g">>}

\* Entry i passed the extension filter and matched the template.
Matched(i) == AllowedName(walk[i].name) /\ MatchOf(i).matched

\* The entity name of a matched entry: objName_texName when an object name
\* was captured, texName otherwise.
EntityName(i) ==
  IF MatchOf(i).objName # None
  THEN MatchOf(i).objName \o <<"_">> \o MatchOf(i).texName
  ELSE MatchOf(i).texName

\* The lower-cased type token of entry i is an alias of slot s.
IsAliasOf(i, s) ==
  \E k \in 1..Len(textureMapping[s]) :
    textureMapping[s][k] = Lower(MatchOf(i).textureType)

\* The lower-cased type token of entry i is in no slot's alias list.
Unrecognised(i) == \A s \in Slots : ~IsAliasOf(i, s)

\* Entry i is a matched file of entity e whose type token resolves to s.
ResolvesTo(i, e, s) == Matched(i) /\ EntityName(i) = e /\ IsAliasOf(i, s)

\* The path the loop stores for entry i.
StoredPath(i) ==
  FinalPath(walk[i].dir, StoredFilename(MatchOf(i), walk[i].name))

Last(S) == CHOOSE i \in S : \A j \in S : j <= i

\* The expression accounts for the whole filename (re.fullmatch).
ReFullMatch(regex, filename) ==
  MatchFrom(ParseRegex(regex), 1, filename, 1, TRUE)

AllSlotsEmpty(t) == \A s \in Slots : t[s] = None

(***************************************************************************)
(* C1. Last-processed wins: at every point of the walk, and so after it,   *)
(* each (entity, slot) pair holds one path, that of the last processed     *)
(* file of that entity whose type token resolves to that slot (None when   *)
(* there is no such file), whatever was stored for the pair before.        *)
(***************************************************************************)
C1_LastProcessedWins ==
  \A e \in DOMAIN textures : \A s \in Slots :
    LET writers == {i \in Processed : ResolvesTo(i, e, s)}
    IN  IF writers = {} THEN textures[e][s] = None
        ELSE textures[e][s] = StoredPath(Last(writers))

\* Two files of one (entity, slot) pair with different paths were processed,
\* and the pair holds the later one's.
C1_Witness ==
  /\ pc = "done"
  /\ \E i, j \in Processed : \E s \in Slots :
       /\ i < j
       /\ ResolvesTo(i, EntityName(j), s) /\ ResolvesTo(j, EntityName(j), s)
       /\ StoredPath(i) # StoredPath(j)
       /\ textures[EntityName(j)][s] = StoredPath(j)

(***************************************************************************)
(* C2. Entity keys: the dict holds exactly one entity per distinct         *)
(* finalName among the processed files that pass the extension filter and  *)
(* match the template (objName_texName when an object name was captured,   *)
(* texName otherwise); the entity's name is its key, and an entity no file *)
(* has written to has its eight slots empty, as it was created.            *)
(***************************************************************************)
C2_EntityKeys ==
  /\ DOMAIN textures = {EntityName(i) : i \in {j \in Processed : Matched(j)}}
  /\ \A e \in DOMAIN textures :
       /\ textures[e].name = e
       /\ DOMAIN textures[e] = Slots \cup {"name"}
       /\ (\A i \in Processed : \A s \in Slots : ~ResolvesTo(i, e, s))
            => AllSlotsEmpty(textures[e])

\* A scan returned two entities, one named after an object name and a
\* texture name, one with every slot empty.
C2_Witness ==
  /\ pc = "done"
  /\ Cardinality(DOMAIN textures) = 2
  /\ \E i \in Processed : Matched(i) /\ MatchOf(i).objName # None
  /\ \E e \in DOMAIN textures : AllSlotsEmpty(textures[e])

(***************************************************************************)
(* C3. A template without the texture-type placeholder, or without the     *)
(* texture-name placeholder, fails at compilation with a PatternError,     *)
(* before any entry of the folder is visited: no scan is started.          *)
(***************************************************************************)
Contains(s, p) == \E i \in 1..Len(s) : StartsWithAt(s, i, p)

LacksRequiredPlaceholder(pattern) ==
  ~Contains(pattern, <<"@", "t", "e", "x", "T", "y", "p", "e">>) \/ ~Contains(pattern, <<"@", "t", "e", "x", "N", "a", "m", "e">>)

C3_PatternErrorBeforeScan ==
  (pc # "idle" /\ LacksRequiredPlaceholder(filePattern))
    => (pc = "raised" /\ exception = "PatternError" /\ walk = <<>> /\ idx = 1)

(***************************************************************************)
(* C4. Full-filename matching: a file is accepted only if the template     *)
(* accounts for its whole name, extension included; a file of which only a *)
(* proper prefix satisfies the template is rejected, that is, leaves the   *)
(* dict as it was.                                                         *)
(***************************************************************************)
C4_FullFilenameMatch ==
  [][(/\ pc = "walk"
      /\ idx <= Len(walk)
      /\ ~ReFullMatch(regexPattern, walk[idx].name).ok)
       => textures' = textures]_vars

(***************************************************************************)
(* C5. UDIM substitution: the path stored for a file whose tile-id was     *)
(* captured is the file's name with the captured occurrence of the tile-id *)
(* replaced by <UDIM> and every other character unchanged; without a       *)
(* captured tile-id the name is stored unchanged. (The files here lie in   *)
(* the folder itself or below it; the directory part is put before.)       *)
(***************************************************************************)
\* The name of entry i with the captured tile-id, and nothing else, replaced.
TileIdReplaced(i) ==
  LET name == walk[i].name
      m == MatchOf(i)
  IN  IF m.textureId # None
      THEN SubSeq(name, 1, m.idStart - 1) \o <<"<", "U", "D", "I", "M", ">">>
           \o SubSeq(name, m.idStart + Len(m.textureId), Len(name))
      ELSE name

C5_UdimSubstitution ==
  \A s \in Slots :
    (LastProcessed >= 1 /\ ResolvesTo(LastProcessed, EntityName(LastProcessed), s))
      => textures[EntityName(LastProcessed)][s]
           = FinalPath(walk[LastProcessed].dir, TileIdReplaced(LastProcessed))

(***************************************************************************)
(* C6. Tile collapse: two files of one directory that match the template   *)
(* and differ only in their captured tile-id resolve to the same entity    *)
(* and slot and have the same stored path, so the slot holds the same      *)
(* value whichever of the two was processed last.                          *)
(***************************************************************************)
\* The name of entry i without its captured tile-id.
TileIdCut(i) ==
  LET name == walk[i].name
      m == MatchOf(i)
  IN  SubSeq(name, 1, m.idStart - 1)
      \o SubSeq(name, m.idStart + Len(m.textureId), Len(name))

\* Entries i and j are tiles of one map: they differ only in the tile-id.
TilesOfOneMap(i, j) ==
  /\ Matched(i) /\ Matched(j)
  /\ walk[i].dir = walk[j].dir
  /\ MatchOf(i).textureId # None /\ MatchOf(j).textureId # None
  /\ MatchOf(i).idStart = MatchOf(j).idStart
  /\ MatchOf(i).textureId # MatchOf(j).textureId
  /\ TileIdCut(i) = TileIdCut(j)

C6_TileCollapse ==
  \A i \in Processed :
    (i < LastProcessed /\ TilesOfOneMap(i, LastProcessed))
      => /\ EntityName(i) = EntityName(LastProcessed)
         /\ \A s \in Slots :
              /\ IsAliasOf(i, s) <=> IsAliasOf(LastProcessed, s)
              /\ IsAliasOf(LastProcessed, s)
                   => textures[EntityName(LastProcessed)][s] = StoredPath(i)

(***************************************************************************)
(* C7. Unrecognised type tokens: processing a matched file whose           *)
(* lower-cased type token is in no slot's alias list changes no slot of    *)
(* any entity (the entity the file names, if new, is created with its      *)
(* slots empty) and raises no error.                                       *)
(***************************************************************************)
C7_UnrecognisedTokenIgnored ==
  [][(/\ pc = "walk"
      /\ idx <= Len(walk)
      /\ Matched(idx)
      /\ Unrecognised(idx))
       => /\ exception' = "none"
          /\ pc' = "walk"
          /\ \A e \in DOMAIN textures :
               e \in DOMAIN textures' /\ textures'[e] = textures[e]
          /\ \A e \in DOMAIN textures' \ DOMAIN textures :
               AllSlotsEmpty(textures'[e])]_vars

\* A file with an unrecognised type token was processed after a file that
\* had populated a slot of the same entity.
C7_Witness ==
  \E i, j \in Processed : \E s \in Slots :
    /\ i < j
    /\ Matched(j) /\ Unrecognised(j)
    /\ ResolvesTo(i, EntityName(j), s)
    /\ textures[EntityName(j)][s] = StoredPath(i)

(***************************************************************************)
(* C8. Silent exclusion, as stated: the collection a scan returns equals   *)
(* the collection returned for the same directory without a file that does *)
(* not match the template or whose type token resolves to no slot.         *)
(***************************************************************************)
\* The walk without entry i.
Without(i) == SubSeq(walk, 1, i - 1) \o SubSeq(walk, i + 1, Len(walk))

\* Entry i does not match the template.
Unmatched(i) == ~ReMatch(regexPattern, walk[i].name).ok

C8_SilentExclusion ==
  pc = "done" =>
    \A i \in 1..Len(walk) :
      (Unmatched(i) \/ (Matched(i) /\ Unrecognised(i)))
        => readTexturesFromFolder(regexPattern, Without(i))
             = [pc |-> "done", exception |-> "none", textures |-> textures]

(***************************************************************************)
(* C8, amended. A file that does not match the template is excluded: the   *)
(* scan returns the same collection without it. A matched file whose type  *)
(* token resolves to no slot populates no slot but still creates its       *)
(* entity: without it the scan returns the same collection, except that    *)
(* the entity the file names, with every slot empty, is absent when no     *)
(* other matched file names it.                                            *)
(***************************************************************************)
C8_ExclusionUpToEmptyEntity ==
  pc = "done" =>
    \A i \in 1..Len(walk) :
      LET r == readTexturesFromFolder(regexPattern, Without(i))
      IN  /\ Unmatched(i)
             => r = [pc |-> "done", exception |-> "none", textures |-> textures]
          /\ (Matched(i) /\ Unrecognised(i))
             => /\ r.pc = "done"
                /\ DOMAIN r.textures \subseteq DOMAIN textures
                /\ \A e \in DOMAIN r.textures : r.textures[e] = textures[e]
                /\ \A e \in DOMAIN textures \ DOMAIN r.textures :
                     e = EntityName(i) /\ AllSlotsEmpty(textures[e])

\* A returned scan went through a file with an unrecognised type token and
\* a file that populated a slot of the same entity, and the dict holds that
\* entity.
C8_Witness ==
  /\ pc = "done"
  /\ \E i, j \in 1..Len(walk) : \E s \in Slots :
       /\ Matched(i) /\ Unrecognised(i)
       /\ ResolvesTo(j, EntityName(i), s)
       /\ textures[EntityName(i)][s] # None

(***************************************************************************)
(* C9. Extension allowlist: a file whose name does not end in exactly      *)
(* .exr, .png or .jpg creates no entity and populates no slot, whatever    *)
(* the template, even when its name satisfies the compiled pattern.        *)
(***************************************************************************)
C9_ExtensionAllowlist ==
  [][(/\ pc = "walk"
      /\ idx <= Len(walk)
      /\ ~AllowedName(walk[idx].name))
       => (textures' = textures /\ exception' = "none")]_vars

\* A file outside the allowlist whose name satisfies the pattern was
\* processed, and the scan returned without an entity.
C9_Witness ==
  /\ pc = "done"
  /\ textures = EmptyTextures
  /\ \E i \in Processed :
       /\ ~AllowedName(walk[i].name)
       /\ ReFullMatch(regexPattern, walk[i].name).ok

(***************************************************************************)
(* C10. Unreadable root: when the folder is missing or cannot be read the  *)
(* scan does not crash, returns an empty collection, and the error is      *)
(* reported (an error message is shown) rather than dropped.               *)
(***************************************************************************)
C10_UnreadableRootReported ==
  (pc # "idle" /\ ~readable)
    => /\ pc # "raised"
       /\ textures = EmptyTextures
       /\ (pc = "done" => errorShown)

(***************************************************************************)
(* C11. Stored relative path: the value stored for a resolved file of      *)
(* directory d under the root is the path of d relative to the root with   *)
(* its backslashes turned into forward slashes, then "/" and the filename  *)
(* (with the tile id substituted); for a file of the root itself it is the *)
(* bare filename, with no "./" before it. The substitution of the tile id  *)
(* never touches the directory part.                                       *)
(***************************************************************************)
ForwardSlashes(d) == [k \in 1..Len(d) |-> IF d[k] = "\\" THEN "/" ELSE d[k]]

\* The value the claim gives for entry i.
RelativePathOf(i) ==
  LET name == StoredFilename(MatchOf(i), walk[i].name)
  IN  IF walk[i].dir = <<".">> THEN name
      ELSE ForwardSlashes(walk[i].dir) \o <<"/">> \o name

C11_StoredRelativePath ==
  \A e \in DOMAIN textures : \A s \in Slots :
    LET writers == {i \in Processed : ResolvesTo(i, e, s)}
    IN  writers # {} => textures[e][s] = RelativePathOf(Last(writers))

\* A resolved file with a tile id was stored from a directory whose relative
\* path holds a backslash and the digits of the id: the directory part keeps
\* the digits and has a forward slash.
C11_Witness ==
  /\ pc = "done"
  /\ \E i \in Processed : \E s \in Slots :
       /\ ResolvesTo(i, EntityName(i), s)
       /\ Contains(walk[i].dir, <<"\\">>)
       /\ MatchOf(i).textureId # None
       /\ Contains(walk[i].dir, MatchOf(i).textureId)
       /\ Contains(walk[i].name, MatchOf(i).textureId)
       /\ textures[EntityName(i)][s] =
            ForwardSlashes(walk[i].dir) \o <<"/">>
              \o Replace(walk[i].name, MatchOf(i).textureId, <<"<", "U", "D", "I", "M", ">">>)

(***************************************************************************)
(* C12. Slot resolution: a token resolves to slot s exactly when the whole *)
(* lower-cased token equals one of the aliases of s. A token that only     *)
(* contains an alias, or is only contained in one, resolves to no slot.    *)
(* Resolving changes nothing of the entity: the one slot the token         *)
(* resolves to receives the path, every other slot stays as it was.        *)
(***************************************************************************)
C12_SlotResolution ==
  [][pc = "walk" /\ idx <= Len(walk) /\ Matched(idx) =>
       LET rm == MatchOf(idx)
           token == Lower(rm.textureType)
           e == EntityName(idx)
           path == StoredPath(idx)
           resolved == TextureParent(rm)
           owns(s) == \E k \in 1..Len(textureMapping[s]) :
                        textureMapping[s][k] = token
           before(s) == IF e \in DOMAIN textures THEN textures[e][s] ELSE None
       IN  /\ e \in DOMAIN textures'
           /\ textures'[e].name = e
           /\ \A s \in Slots :
                /\ (resolved = s) <=> owns(s)
                /\ textures'[e][s] = IF owns(s) THEN path ELSE before(s)
           /\ (resolved = NoSlot) <=> \A s \in Slots : ~owns(s)]_vars

\* A matched file was processed whose token holds an alias and is itself part
\* of a longer alias ("basec": "base", "basecolor"); it resolved to no slot.
C12_Witness ==
  \E i \in Processed :
    LET token == Lower(MatchOf(i).textureType)
    IN  /\ Matched(i)
        /\ Unrecognised(i)
        /\ \E s \in Slots : \E k \in 1..Len(textureMapping[s]) :
             Contains(token, textureMapping[s][k])
        /\ \E s \in Slots : \E k \in 1..Len(textureMapping[s]) :
             Contains(textureMapping[s][k], token)
        /\ AllSlotsEmpty(textures[EntityName(i)])

(***************************************************************************)
(* C13. Alias uniqueness: no alias of the table belongs to two slots, so   *)
(* the slot a token resolves to does not depend on the order in which the  *)
(* table is gone through: at most one slot owns the token of a processed   *)
(* file, and that slot is the one the file resolved to.                    *)
(***************************************************************************)
\* No alias of the table is in the lists of two slots.
NoSharedAlias ==
  \A s1, s2 \in Slots :
    \A k1 \in 1..Len(textureMapping[s1]) :
      \A k2 \in 1..Len(textureMapping[s2]) :
        textureMapping[s1][k1] = textureMapping[s2][k2] => s1 = s2

C13_AliasUniqueness ==
  /\ NoSharedAlias
  /\ \A i \in Processed :
       Matched(i) =>
         LET rm == MatchOf(i)
             token == Lower(rm.textureType)
             owners == {s \in Slots :
                          \E k \in 1..Len(textureMapping[s]) :
                            textureMapping[s][k] = token}
         IN  /\ Cardinality(owners) <= 1
             /\ \A s \in owners : TextureParent(rm) = s

\* A processed file resolved to a slot that is not the first of the table:
\* going through the table in another order would meet that slot earlier or
\* later, and still only that slot.
C13_Witness ==
  \E i \in Processed :
    /\ ResolvesTo(i, EntityName(i), "ambientOcclusion")
    /\ textures[EntityName(i)]["ambientOcclusion"] # None

(***************************************************************************)
(* C14. Idempotence of a scan: a scan run again with the same template     *)
(* over the same files in the same order returns a collection with the     *)
(* same entity names and the same path in every slot as the scan before.   *)
(***************************************************************************)
C14_Idempotence ==
  pc = "done" /\ repeat /\ previous.returned =>
    /\ DOMAIN textures = DOMAIN previous.textures
    /\ \A e \in DOMAIN textures :
         /\ textures[e].name = previous.textures[e].name
         /\ \A s \in Slots : textures[e][s] = previous.textures[e][s]

\* The second of two scans with one template over the same two files has
\* returned, and its result has a populated slot.
C14_Witness ==
  /\ pc = "done" /\ repeat /\ previous.returned
  /\ Len(walk) >= 2
  /\ \E e \in DOMAIN textures : \E s \in Slots : textures[e][s] # None

(***************************************************************************)
(* C15. End-to-end flat folder: with the template @texName_@texType.ext    *)
(* and a flat folder whose files all have the form                         *)
(* <name>_<alias>.<allowed extension>, the result has one entity for each  *)
(* distinct <name> and nothing else; each slot that owns an alias of one   *)
(* of that name's files holds the filename of such a file, and every other *)
(* slot of the entity is empty.                                            *)
(***************************************************************************)
\* A filename of the form: <alias> holds no "_", so <name> is what comes
\* before the last "_" and <alias> what lies between it and the extension.
LastUnderscore(f) ==
  LET places == {k \in 1..Len(f) : f[k] = "_"}
  IN  IF places = {} THEN 0 ELSE Last(places)

NamePart(f) == SubSeq(f, 1, LastUnderscore(f) - 1)

AliasPart(f) == SubSeq(f, LastUnderscore(f) + 1, Len(f) - 4)

Owns(s, alias) ==
  \E k \in 1..Len(textureMapping[s]) : textureMapping[s][k] = alias

FlatForm(f) ==
  /\ AllowedName(f)
  /\ LastUnderscore(f) > 1
  /\ \E s \in Slots : Owns(s, AliasPart(f))

FlatFolder ==
  \A i \in 1..Len(walk) : walk[i].dir = <<".">> /\ FlatForm(walk[i].name)

FlatResult ==
  /\ DOMAIN textures = {NamePart(walk[i].name) : i \in 1..Len(walk)}
  /\ \A e \in DOMAIN textures : \A s \in Slots :
       LET files == {i \in 1..Len(walk) :
                       /\ NamePart(walk[i].name) = e
                       /\ Owns(s, AliasPart(walk[i].name))}
       IN  IF files = {} THEN textures[e][s] = None
           ELSE textures[e][s] \in {walk[i].name : i \in files}

C16_ScanIsolation ==
  pc = "done" =>
    /\ textures =
         readTexturesFromFolder(Compiled[filePattern],
                                IF readable THEN listing ELSE <<>>).textures
    /\ \A e \in DOMAIN textures :
         /\ \E i \in 1..Len(walk) : Matched(i) /\ EntityName(i) = e
         /\ \A s \in Slots :
              textures[e][s] # None =>
                \E i \in 1..Len(walk) :
                  ResolvesTo(i, e, s) /\ textures[e][s] = StoredPath(i)

\* A scan has returned after a scan with another pattern or other files that
\* returned an entity and a path this one has not; this one returned an
\* entity too.
C16_Witness ==
  /\ pc = "done" /\ ~repeat /\ previous.returned
  /\ DOMAIN textures # {}
  /\ \E e \in DOMAIN previous.textures :
       /\ e \notin DOMAIN textures
       /\ \E s \in Slots :
            /\ previous.textures[e][s] # None
            /\ \A d \in DOMAIN textures : textures[d][s] # previous.textures[e][s]

(***************************************************************************)
(* C17. Literal characters stay literal: every character of the template   *)
(* that is not part of a placeholder token, of the wildcard token or of    *)
(* the extension marker is matched only by the same character at the       *)
(* corresponding place of the filename, regex metacharacters included: a   *)
(* matched filename can be laid along the template with each token taking  *)
(* some text and each other character of the template meeting itself.      *)
(***************************************************************************)
TemplateTokens ==
  {<<"@", "o", "b", "j", "N", "a", "m", "e">>, <<"@", "t", "e", "x", "N", "a", "m", "e">>, <<"@", "t", "e", "x", "T", "y", "p", "e">>, <<"@", "i", "d">>, <<"*">>, <<".", "e", "x", "t">>}

\* The filename f from place j on follows the template t from place k on.
RECURSIVE FollowsLiterals(_, _, _, _)
FollowsLiterals(t, k, f, j) ==
  IF k > Len(t) THEN TRUE
  ELSE LET tokens == {token \in TemplateTokens : StartsWithAt(t, k, token)}
       IN  IF tokens # {}
           THEN \E token \in tokens : \E n \in 0..(Len(f) - j + 1) :
                  FollowsLiterals(t, k + Len(token), f, j + n)
           ELSE /\ j <= Len(f)
                /\ f[j] = t[k]
                /\ FollowsLiterals(t, k + 1, f, j + 1)

C17_LiteralsStayLiteral ==
  \A i \in Processed :
    Matched(i) => FollowsLiterals(filePattern, 1, walk[i].name, 1)

(***************************************************************************)
(* C18. Wildcard semantics: each wildcard token of the template takes a    *)
(* non-empty run of characters of the filename that holds no "_"; it never *)
(* matches the empty string and never goes over a separator.               *)
(***************************************************************************)
\* How many wildcard tokens each pattern holds.
Wildcards ==
  [p \in Patterns |-> Cardinality({k \in 1..Len(p) : p[k] = "*"})]

\* What the unnamed groups take of each file of the model under each pattern
\* (nothing when the file does not match).
Taken ==
  [p \in Patterns |->
     [f \in {e.name : e \in Files} |-> ReMatch(Compiled[p], f).unnamed]]

C18_WildcardSemantics ==
  \A i \in Processed :
    Wildcards[filePattern] > 0 /\ Matched(i) =>
      LET taken == Taken[filePattern][walk[i].name]
      IN  /\ Len(taken) = Wildcards[filePattern]
          /\ \A k \in 1..Len(taken) :
               /\ taken[k] # None
               /\ taken[k] # <<>>
               /\ ~Contains(taken[k], <<"_">>)

\* Under a template with a wildcard, a file was matched with the wildcard
\* taking one character, and a file that the template without the wildcard
\* matches (the wildcard would have to take nothing) was not matched.
C18_Witness ==
  /\ pc = "done"
  /\ Wildcards[filePattern] > 0
  /\ \E i \in Processed :
       /\ Matched(i)
       /\ Taken[filePattern][walk[i].name] = <<<<"a">>>>
  /\ \E j \in Processed :
       /\ AllowedName(walk[j].name)
       /\ ~Matched(j)
       /\ ReMatch(getRegexPattern(Replace(filePattern, <<"*">>, <<>>)),
                  walk[j].name).ok

(***************************************************************************)
(* C19. Optional object-name: with a template that holds the object-name   *)
(* placeholder, a filename whose object-name part is empty (it matches the *)
(* template with the placeholder taken out) still matches, and its entity  *)
(* is named by the texture-name alone: the name has no separator and no    *)
(* "None" before it.                                                       *)
(***************************************************************************)
\* Each pattern compiled without its object-name placeholder.
WithoutObjName ==
  [p \in Patterns |-> getRegexPattern(Replace(p, <<"@", "o", "b", "j", "N", "a", "m", "e">>, <<>>))]

\* The match of each file of the model with each pattern so compiled.
BareMatch ==
  [p \in Patterns |->
     [f \in {e.name : e \in Files} |-> ReMatch(WithoutObjName[p], f)]]

HasObjName == [p \in Patterns |-> Contains(p, <<"@", "o", "b", "j", "N", "a", "m", "e">>)]

C19_OptionalObjectName ==
  \A i \in Processed :
    HasObjName[filePattern] /\ AllowedName(walk[i].name) =>
      LET bare == BareMatch[filePattern][walk[i].name]
          texName == bare.text["texName"]
      IN  bare.ok =>
            /\ MatchOf(i).matched
            /\ texName \in DOMAIN textures
            /\ textures[texName].name = texName
            /\ (<<"_">> \o texName) \notin DOMAIN textures
            /\ (<<"N", "o", "n", "e", "_">> \o texName) \notin DOMAIN textures

\* Under @objName_@texName_@texType.ext a file that starts with the
\* separator was processed: its entity has the texture-name as its name and
\* holds the file.
C19_Witness ==
  /\ pc = "done"
  /\ HasObjName[filePattern]
  /\ \E i \in Processed :
       /\ walk[i].name[1] = "_"
       /\ Matched(i)
       /\ MatchOf(i).objName = None
       /\ MatchOf(i).texName \in DOMAIN textures
       /\ \E s \in Slots :
            textures[MatchOf(i).texName][s] = walk[i].name

(***************************************************************************)
(* C20. Monotone growth within a scan: at every step of a scan the set of  *)
(* entities only grows (an entity once created is neither removed nor      *)
(* renamed), and a slot that holds a path never becomes empty again: it    *)
(* can only be given another path.                                         *)
(***************************************************************************)
C20_MonotoneGrowth ==
  [][pc = "walk" =>
       /\ DOMAIN textures \subseteq DOMAIN textures'
       /\ \A e \in DOMAIN textures :
            /\ textures[e].name = e
            /\ textures'[e].name = e
            /\ \A s \in Slots :
                 textures[e][s] # None => textures'[e][s] # None]_vars

\* After a file that populated a slot of one entity, a file of another
\* entity was processed: both entities are there and the slot still holds
\* the path.
C20_Witness ==
  \E i, j \in Processed : \E s \in Slots :
    /\ i < j
    /\ ResolvesTo(i, EntityName(i), s)
    /\ Matched(j)
    /\ EntityName(j) # EntityName(i)
    /\ {EntityName(i), EntityName(j)} \subseteq DOMAIN textures
    /\ textures[EntityName(i)][s] = StoredPath(i)

(***************************************************************************)
(* C21. Order independence without conflicts: when no two matched files    *)
(* resolve to one (entity, slot) pair with different stored paths, a scan  *)
(* of the same files in any other order returns the same collection; and   *)
(* whatever the files, the set of entity names is the same in any order.   *)
(***************************************************************************)
\* No two files of the walk resolve to one pair with different paths.
NoConflict ==
  \A i, j \in 1..Len(walk) : \A s \in Slots :
    ResolvesTo(i, EntityName(i), s) /\ ResolvesTo(j, EntityName(i), s)
      => StoredPath(i) = StoredPath(j)

C21_OrderIndependence ==
  pc = "done" /\ reordered /\ previous.returned =>
    /\ DOMAIN textures = DOMAIN previous.textures
    /\ NoConflict => textures = previous.textures

\* A scan of two files of two different slots or entities, without
\* conflict, has returned after a scan of the same files in the other
\* order, and its result holds a path for each.
C21_Witness ==
  /\ pc = "done" /\ reordered /\ previous.returned
  /\ NoConflict
  /\ Len(walk) = 2
  /\ \E e1, e2 \in DOMAIN textures : \E s1, s2 \in Slots :
       /\ <<e1, s1>> # <<e2, s2>>
       /\ textures[e1][s1] = walk[1].name
       /\ textures[e2][s2] = walk[2].name

(***************************************************************************)
(* C22. Frame of one aggregation step: processing one matched file changes *)
(* at most one slot of the one entity named by the file's finalName, which *)
(* it may create; the name and the slots of every other entity, and the    *)
(* name and the other slots of that entity, stay as they were.             *)
(***************************************************************************)
C22_StepFrame ==
  [][pc = "walk" /\ idx <= Len(walk) /\ Matched(idx) =>
       LET e == EntityName(idx)
           old(s) == IF e \in DOMAIN textures THEN textures[e][s] ELSE None
           changed == {s \in Slots : textures'[e][s] # old(s)}
       IN  /\ DOMAIN textures' = DOMAIN textures \cup {e}
           /\ \A d \in DOMAIN textures \ {e} : textures'[d] = textures[d]
           /\ textures'[e].name = e
           /\ Cardinality(changed) <= 1]_vars

\* The second file of an entity was processed and gave it a path in another
\* slot than the first: the slot of the first file holds its path still.
C22_Witness ==
  \E i, j \in Processed : \E s1, s2 \in Slots :
    /\ i < j
    /\ s1 # s2
    /\ ResolvesTo(i, EntityName(j), s1)
    /\ ResolvesTo(j, EntityName(j), s2)
    /\ textures[EntityName(j)][s1] = StoredPath(i)
    /\ textures[EntityName(j)][s2] = StoredPath(j)

(***************************************************************************)
(* C23. Provenance: in every state of a scan, each slot of an entity that  *)
(* holds a path holds the stored path of a file already processed that     *)
(* passed the extension filter, matched the template with the entity's     *)
(* name as its finalName, and whose lower-cased type token is an alias of  *)
(* that slot and of no other.                                              *)
(***************************************************************************)
C23_Provenance ==
  \A e \in DOMAIN textures : \A s \in Slots :
    textures[e][s] # None =>
      \E i \in Processed :
        /\ AllowedName(walk[i].name)
        /\ MatchOf(i).matched
        /\ EntityName(i) = e
        /\ IsAliasOf(i, s)
        /\ \A other \in Slots \ {s} : ~IsAliasOf(i, other)
        /\ textures[e][s] = RelativePathOf(i)

\* In the middle of a walk a slot holds the path of the file processed
\* first, and the file processed after it, of the same entity, resolved to
\* no slot.
C23_Witness ==
  /\ pc = "walk"
  /\ \E i, j \in Processed : \E s \in Slots :
       /\ i < j
       /\ ResolvesTo(i, EntityName(i), s)
       /\ Matched(j) /\ EntityName(j) = EntityName(i) /\ Unrecognised(j)
       /\ textures[EntityName(i)][s] = RelativePathOf(i)

\* C24: between two handlers of the dialog, the Create button is enabled
\* only if the texture list holds at least one entity widget made by the
\* most recent scan; it is disabled before any scan, after Clear, and after
\* a scan that returned no entity. A reload that raised is a state between
\* two handlers as well.
C24_CreateButton ==
  /\ pc \in {"idle", "done", "raised", "cleared"} /\ createEnabled =>
       /\ texList # {}
       /\ pc = "done"
       /\ texList = DOMAIN textures
  /\ pc \in {"idle", "cleared"} => ~createEnabled
  /\ pc = "done" /\ DOMAIN textures = {} => ~createEnabled
====
